---- MODULE Spec2Model ----
(***************************************************************************)
(* Branch-and-bound pose search of lib-python/models.py (class BNBOpt):    *)
(* opt_theta evaluates the base SO(3) grid for a batch of images, then     *)
(* refines the best cell of every image for niter levels and returns the   *)
(* rotation of the last best quaternion.                                   *)
(*                                                                         *)
(* Tensors are functions over 0-based index ranges, as in the source.      *)
(* Floating point values are records [k, v]: k = "fin" with the value v,   *)
(* k = "inf" for +infinity, k = "nan" for NaN.                             *)
(***************************************************************************)
EXTENDS Integers, Sequences, FiniteSets, TLC

\* Bounds of the model.
MaxB == 2
MaxIter == 2
NS2 == 2
NS1 == 2

\* Candidates per image and refinement level: y_hat.view(-1, 8, ny, nx).
NumNeighbors == 8

PixelValues == {0, 1}
LatticeShapes == {<<1, 2>>, <<2, 1>>}
NonFinite == {"none", "nan", "inf"}

VARIABLES model, ny, nx, images, niter, B, pc, error, iter_, min_i, min_quat,
          s2i, s1i, neighbors, renderCalls, iters, out

vars == <<model, ny, nx, images, niter, B, pc, error, iter_, min_i, min_quat,
          s2i, s1i, neighbors, renderCalls, iters, out>>

----------------------------------------------------------------------------
\* IEEE floating point values and the operations the error sum uses.

Fin(n) == [k |-> "fin", v |-> n]
PosInf == [k |-> "inf", v |-> 0]
NaN == [k |-> "nan", v |-> 0]

\* a < b and a == b as IEEE comparisons: false whenever an operand is NaN.
FLess(a, b) ==
    /\ a.k = "fin"
    /\ \/ b.k = "inf"
       \/ b.k = "fin" /\ a.v < b.v
FEq(a, b) ==
    \/ a.k = "fin" /\ b.k = "fin" /\ a.v = b.v
    \/ a.k = "inf" /\ b.k = "inf"

FAdd(a, b) ==
    IF a.k = "nan" \/ b.k = "nan" THEN NaN
    ELSE IF a.k = "inf" \/ b.k = "inf" THEN PosInf
    ELSE Fin(a.v + b.v)

\* (pixel - y).pow(2) for a finite image pixel and a rendered value y.
FSqDiff(pixel, y) ==
    IF y.k = "nan" THEN NaN
    ELSE IF y.k = "inf" THEN PosInf
    ELSE Fin((pixel - y.v) * (pixel - y.v))

\* A tensor or numpy array: the function f held as a value, every element
\* computed once when the array is made.
Array(f) == f @@ <<>>

----------------------------------------------------------------------------
\* SO(3) grid and rotation algebra (so3_grid, lie_tools).

\* A grid quaternion: the Hopf cell (res, s2, s1) it is the centre of, with
\* the sign of its scalar part.
HopfQuat(res, s2, s1) ==
    [sgn |-> IF (s2 + s1) % 2 = 0 THEN 1 ELSE -1, res |-> res, s2 |-> s2, s1 |-> s1]

\* q and -q are the same rotation.
quaternions_to_SO3(q) == [res |-> q.res, s2 |-> q.s2, s1 |-> q.s1]

G0 == NS2 * NS1

base_quat == [q \in 0..(G0 - 1) |-> HopfQuat(0, q \div NS1, q % NS1)]

base_rot == [q \in 0..(G0 - 1) |-> quaternions_to_SO3(base_quat[q])]

get_base_indr(ind) == <<ind \div NS1, ind % NS1>>

get_neighbor(quat, s2, s1, cur_res) ==
    [quat |-> [j \in 0..(NumNeighbors - 1) |->
                  HopfQuat(cur_res, 4 * s2 + (j \div 2), 2 * s1 + (j % 2))],
     ind  |-> [j \in 0..(NumNeighbors - 1) |->
                  <<4 * s2 + (j \div 2), 2 * s1 + (j % 2)>>]]

----------------------------------------------------------------------------
\* The render model: a deterministic function of the rotated lattice point,
\* fixed by the weights of the network; it may return non-finite values.

BadRot(rot) == rot.s2 % 2 = 1 /\ rot.s1 % 2 = 0

ModelValue(m, rot, p) ==
    IF m.bad = "nan" /\ BadRot(rot) THEN NaN
    ELSE IF m.bad = "inf" /\ BadRot(rot) THEN PosInf
    ELSE Fin((m.a * rot.s2 + m.b * rot.s1 + p) % Cardinality(PixelValues))

\* y_hat of one rotation, viewed as ny x nx (flattened row-major).
YHat(m, rot, lny, lnx) == [p \in 0..(lny * lnx - 1) |-> ModelValue(m, rot, p)]

----------------------------------------------------------------------------
\* torch broadcasting of the two trailing dimensions of images - y_hat.

Broadcastable(a, b) == a = b \/ a = 1 \/ b = 1
BroadcastDim(a, b) == IF a = 1 THEN b ELSE a

ShapesBroadcast(imgs, lny, lnx) ==
    Broadcastable(imgs.Y, lny) /\ Broadcastable(imgs.X, lnx)

\* torch.sum((images - y_hat).pow(2), (-1, -2)) for one image and one
\* candidate: the sum over the first n points of the broadcast result.
RECURSIVE SumSq(_, _, _, _, _, _, _)
SumSq(img, Y, X, yh, lny, lnx, n) ==
    IF n = 0 THEN Fin(0)
    ELSE LET RX == BroadcastDim(X, lnx)
             y  == (n - 1) \div RX
             x  == (n - 1) % RX
             ip == (IF Y = 1 THEN 0 ELSE y) * X + (IF X = 1 THEN 0 ELSE x)
             hp == (IF lny = 1 THEN 0 ELSE y) * lnx + (IF lnx = 1 THEN 0 ELSE x)
         IN  FAdd(SumSq(img, Y, X, yh, lny, lnx, n - 1), FSqDiff(img[ip], yh[hp]))

Err(img, Y, X, yh, lny, lnx) ==
    SumSq(img, Y, X, yh, lny, lnx, BroadcastDim(Y, lny) * BroadcastDim(X, lnx))

\* torch.argmin over n candidates, as a scan from index 0: a NaN is taken as
\* smaller than every number and the first of equal values is kept, so the
\* result is the first NaN if there is one, else the first minimal value.
RECURSIVE ArgMinScan(_, _, _, _, _)
ArgMinScan(err, n, j, best, bestVal) ==
    IF j >= n THEN best
    ELSE LET e == err[j]
         IN  IF bestVal.k # "nan" /\ (e.k = "nan" \/ FLess(e, bestVal))
             THEN ArgMinScan(err, n, j + 1, j, e)
             ELSE ArgMinScan(err, n, j + 1, best, bestVal)

\* An arg-min scan that keeps the last of equal values.
RECURSIVE ArgMinScanLast(_, _, _, _, _)
ArgMinScanLast(err, n, j, best, bestVal) ==
    IF j >= n THEN best
    ELSE LET e == err[j]
         IN  IF bestVal.k # "nan" /\ (e.k = "nan" \/ ~FLess(bestVal, e))
             THEN ArgMinScanLast(err, n, j + 1, j, e)
             ELSE ArgMinScanLast(err, n, j + 1, best, bestVal)

argmin_last(err, n) == ArgMinScanLast(err, n, 1, 0, err[0])

argmin(err, n) == ArgMinScan(err, n, 1, 0, err[0])

----------------------------------------------------------------------------
\* BNBOpt.

\* eval_base_grid: one rendering of all G0 base rotations, the error of every
\* image against every candidate (B x Q), and the arg-min of every row.
eval_base_grid(imgs, m, lny, lnx) ==
    Array([i \in 0..(imgs.B - 1) |->
        argmin([q \in 0..(G0 - 1) |->
                   Err(imgs.data[i], imgs.Y, imgs.X,
                       YHat(m, base_rot[q], lny, lnx), lny, lnx)], G0)])

\* A refinement that scores every image's row against the first image.
eval_incremental_grid_shared(imgs, quat_for_image, m, lny, lnx) ==
    Array([i \in 0..(imgs.B - 1) |->
        argmin([j \in 0..(NumNeighbors - 1) |->
                   Err(imgs.data[0], imgs.Y, imgs.X,
                       YHat(m, quaternions_to_SO3(quat_for_image[0][j]), lny, lnx),
                       lny, lnx)], NumNeighbors)])

\* eval_incremental_grid: one rendering of the B x 8 candidates, the error of
\* image i against its own 8 candidates only, and the arg-min of every row.
eval_incremental_grid(imgs, quat_for_image, m, lny, lnx) ==
    Array([i \in 0..(imgs.B - 1) |->
        argmin([j \in 0..(NumNeighbors - 1) |->
                   Err(imgs.data[i], imgs.Y, imgs.X,
                       YHat(m, quaternions_to_SO3(quat_for_image[i][j]), lny, lnx),
                       lny, lnx)], NumNeighbors)])

\* A search that does not check the mode of the model.
NotTraining_unchecked(m) == TRUE

\* assert not self.model.training
NotTraining(m) == ~m.training

\* A base lookup that is off by one entry.
SelectBase_shifted(mi) == Array([i \in DOMAIN mi |-> base_quat[(mi[i] + 1) % G0]])

\* min_quat = self.base_quat[min_i]
SelectBase(mi) == Array([i \in DOMAIN mi |-> base_quat[mi[i]]])

\* range(1, niter): a loop that stops one level early.
HasNextIter_short(done, n) == done + 1 \in 1..(n - 1)

\* for iter_ in range(1, niter + 1): is there an iteration after `done`?
HasNextIter(done, n) == done + 1 \in 1..n

\* min_ind = np.stack(ind)[np.arange(B), min_i]
SelectInd(ind, mi) == Array([i \in DOMAIN mi |-> ind[i][mi[i]]])

\* A quaternion lookup that uses the first image's arg-min for every image.
SelectQuat_first(quat, mi) == Array([i \in DOMAIN mi |-> quat[i][mi[0]]])

\* min_quat = np.stack(quat)[np.arange(B), min_i]
SelectQuat(quat, mi) == Array([i \in DOMAIN mi |-> quat[i][mi[i]]])

\* One render-model call per image.
IncrementalCalls_per_image(b) == [i \in 1..b |-> NumNeighbors]

\* The render-model calls of one refinement level: the number of rotations
\* of each call.
IncrementalCalls(b) == <<b * NumNeighbors>>

\* Lines 115-116: the search state of the base stage, from its arg-min.
BaseState(mi) ==
    [min_i    |-> mi,
     min_quat |-> SelectBase(mi),
     s2i      |-> Array([i \in DOMAIN mi |-> get_base_indr(mi[i])[1]]),
     s1i      |-> Array([i \in DOMAIN mi |-> get_base_indr(mi[i])[2]])]

\* Line 118: the neighbors of every image's best cell at level it.
Neighbors(st, b, it) ==
    Array([i \in 0..(b - 1) |->
              get_neighbor(st.min_quat[i], st.s2i[i], st.s1i[i], it)])

\* Lines 119-120.
QuatOf(nb) == [i \in DOMAIN nb |-> nb[i].quat]
IndOf(nb) == [i \in DOMAIN nb |-> nb[i].ind]

\* Lines 122-124: the search state of a refinement level, from the neighbors
\* and the arg-min of the level.
LevelState(nb, mi) ==
    LET min_ind == SelectInd(IndOf(nb), mi)
    IN  [min_i    |-> mi,
         min_quat |-> SelectQuat(QuatOf(nb), mi),
         s2i      |-> Array([i \in DOMAIN mi |-> min_ind[i][1]]),
         s1i      |-> Array([i \in DOMAIN mi |-> min_ind[i][2]])]

----------------------------------------------------------------------------
\* The image batches a caller can pass to a search built for an lny x lnx
\* lattice: B x Y x X, every image flattened row-major. The shapes are the
\* lattice's, two that differ from it but broadcast against it, and one that
\* does not broadcast.
ImageShapes(lny, lnx) ==
    {<<lny, lnx>>, <<1, 1>>, <<lnx, lny>>,
     <<IF lny > 1 THEN lny + 1 ELSE 1, IF lnx > 1 THEN lnx + 1 ELSE 1>>}

Batches(lny, lnx) ==
    UNION { { [B |-> b, Y |-> s[1], X |-> s[2], data |-> d] :
                d \in [0..(b - 1) -> [0..(s[1] * s[2] - 1) -> PixelValues]] } :
            b \in 0..MaxB, s \in ImageShapes(lny, lnx) }

\* The render models: the weights (a, b) and whether some rotations render
\* non-finite; a model left in training mode is rejected before it is used.
Models ==
    [training : {FALSE}, a : 0..1, b : 0..1, bad : NonFinite]
        \cup [training : {TRUE}, a : {1}, b : {1}, bad : {"none"}]

NoBatch == [B |-> 0, Y |-> 0, X |-> 0, data |-> <<>>]

\* BNBOpt(model, ny, nx): the search object after construction, no call yet.
Init ==
    /\ model \in Models
    /\ \E s \in LatticeShapes : ny = s[1] /\ nx = s[2]
    /\ images = NoBatch
    /\ niter = 0
    /\ B = 0
    /\ pc = "idle"
    /\ error = "none"
    /\ iter_ = 0
    /\ min_i = <<>>
    /\ min_quat = <<>>
    /\ s2i = <<>>
    /\ s1i = <<>>
    /\ neighbors = <<>>
    /\ renderCalls = <<>>
    /\ iters = <<>>
    /\ out = <<>>

\* opt_theta(images, niter), lines 110-112: B = images.size(0) and the assert.
Call(imgs, n) ==
    /\ images' = imgs
    /\ niter' = n
    /\ B' = imgs.B
    /\ IF NotTraining(model)
       THEN pc' = "base" /\ error' = error
       ELSE pc' = "error" /\ error' = "AssertionError"
    /\ UNCHANGED <<model, ny, nx, iter_, min_i, min_quat, s2i, s1i, neighbors,
                   renderCalls, iters, out>>

OptTheta ==
    /\ pc = "idle"
    /\ \E imgs \in Batches(ny, nx), n \in 0..MaxIter : Call(imgs, n)

\* Lines 114-116: eval_base_grid renders the base grid (line 92), then
\* subtracts (line 96), which raises when the shapes do not broadcast.
EvalBaseGrid ==
    /\ pc = "base"
    /\ renderCalls' = Append(renderCalls, G0)
    /\ IF ShapesBroadcast(images, ny, nx)
       THEN /\ min_i' = eval_base_grid(images, model, ny, nx)
            /\ LET st == BaseState(min_i')
               IN  /\ min_quat' = st.min_quat
                   /\ s2i' = st.s2i
                   /\ s1i' = st.s1i
            /\ pc' = "loop"
            /\ error' = error
       ELSE /\ pc' = "error"
            /\ error' = "RuntimeError"
            /\ UNCHANGED <<min_i, min_quat, s2i, s1i>>
    /\ UNCHANGED <<model, ny, nx, images, niter, B, iter_, neighbors, iters, out>>

\* Lines 117-124, one iteration of the loop: np.concatenate of an empty
\* quat list (B = 0) raises before the render model is called.
RefineLevel ==
    /\ pc = "loop"
    /\ HasNextIter(iter_, niter)
    /\ LET it == iter_ + 1
           st == [min_i |-> min_i, min_quat |-> min_quat, s2i |-> s2i, s1i |-> s1i]
       IN  /\ neighbors' = Neighbors(st, B, it)
           /\ IF B = 0
              THEN /\ pc' = "error"
                   /\ error' = "ValueError"
                   /\ UNCHANGED <<min_i, min_quat, s2i, s1i, renderCalls, iter_, iters>>
              ELSE /\ renderCalls' = renderCalls \o IncrementalCalls(B)
                   /\ min_i' = eval_incremental_grid(images, QuatOf(neighbors'),
                                                     model, ny, nx)
                   /\ LET nx_st == LevelState(neighbors', min_i')
                      IN  /\ min_quat' = nx_st.min_quat
                          /\ s2i' = nx_st.s2i
                          /\ s1i' = nx_st.s1i
                   /\ iter_' = it
                   /\ iters' = Append(iters, it)
                   /\ pc' = "loop"
                   /\ error' = error
    /\ UNCHANGED <<model, ny, nx, images, niter, B, out>>

\* Line 125: the loop is exhausted; convert the best quaternions.
Return ==
    /\ pc = "loop"
    /\ ~HasNextIter(iter_, niter)
    /\ out' = [i \in DOMAIN min_quat |-> quaternions_to_SO3(min_quat[i])]
    /\ pc' = "done"
    /\ UNCHANGED <<model, ny, nx, images, niter, B, error, iter_, min_i, min_quat,
                   s2i, s1i, neighbors, renderCalls, iters>>

Next ==
    \/ OptTheta
    \/ EvalBaseGrid
    \/ RefineLevel
    \/ Return

Spec == Init /\ [][Next]_vars

----------------------------------------------------------------------------
\* opt_theta as a function of its inputs, for a call that does not raise
\* (B >= 1, shapes that broadcast, model not in training mode): the base
\* stage, the levels after `done` up to n, and the conversion of line 125.

RECURSIVE Refine(_, _, _, _, _, _, _)
Refine(st, imgs, m, lny, lnx, done, n) ==
    IF ~HasNextIter(done, n) THEN st
    ELSE LET nb == Neighbors(st, imgs.B, done + 1)
             mi == eval_incremental_grid(imgs, QuatOf(nb), m, lny, lnx)
         IN  Refine(LevelState(nb, mi), imgs, m, lny, lnx, done + 1, n)

opt_theta(imgs, n, m, lny, lnx) ==
    LET st == Refine(BaseState(eval_base_grid(imgs, m, lny, lnx)),
                     imgs, m, lny, lnx, 0, n)
    IN  [i \in 0..(imgs.B - 1) |-> quaternions_to_SO3(st.min_quat[i])]

\* images[lo:hi]
SubBatch(imgs, lo, hi) ==
    [B |-> hi - lo, Y |-> imgs.Y, X |-> imgs.X,
     data |-> [i \in 0..(hi - lo - 1) |-> imgs.data[lo + i]]]

----------------------------------------------------------------------------
\* Vocabulary of the properties.

\* The image dimensions (Y, X) are the lattice dimensions (ny, nx).
ShapeMatches == images.Y = ny /\ images.X = nx

\* The summed squared error between an image and a rendering of the same n
\* pixels, in floating point.
RECURSIVE SSE(_, _, _)
SSE(img, yh, n) ==
    IF n = 0 THEN Fin(0)
    ELSE FAdd(SSE(img, yh, n - 1), FSqDiff(img[n - 1], yh[n - 1]))

\* The error of image i against the rendering of rotation rot.
RotErr(i, rot) == SSE(images.data[i], YHat(model, rot, ny, nx), ny * nx)

\* Index sel is an index of minimum error among the n candidates of err, and
\* the lowest such index (comparisons are those of floating point numbers).
IsFirstMin(err, n, sel) ==
    /\ sel \in 0..(n - 1)
    /\ \A c \in 0..(n - 1) : ~FLess(err[c], err[sel])
    /\ \A c \in 0..(sel - 1) : ~FEq(err[c], err[sel])

\* Image i is exactly the rendering of base-grid entry q.
MatchesBase(i, q) ==
    \A p \in 0..(ny * nx - 1) :
        YHat(model, base_rot[q], ny, nx)[p] = Fin(images.data[i][p])

Entered == pc # "idle"

----------------------------------------------------------------------------
\* C1: after the base stage, for every image, the selected base-grid index is
\* an index of minimum summed squared error between that image and the
\* rendered candidates, the lowest one when several candidates have the
\* minimum error, and it is the index selected for that image alone.
C1_BaseArgMin ==
    (pc = "loop" /\ iter_ = 0 /\ ShapeMatches) =>
        \A i \in 0..(B - 1) :
            /\ IsFirstMin([q \in 0..(G0 - 1) |-> RotErr(i, base_rot[q])], G0, min_i[i])
            /\ min_i[i] = eval_base_grid(SubBatch(images, i, i + 1), model, ny, nx)[0]

\* A batch of two images that select different base entries, one of them not
\* entry 0 and tied with a later entry.
C1_Witness ==
    /\ pc = "loop" /\ iter_ = 0 /\ ShapeMatches /\ B = 2
    /\ min_i[0] # min_i[1]
    /\ \E i \in 0..1 : \E q \in (min_i[i] + 1)..(G0 - 1) :
          /\ min_i[i] > 0
          /\ FEq(RotErr(i, base_rot[q]), RotErr(i, base_rot[min_i[i]]))

----------------------------------------------------------------------------
\* C2: a refinement level gives every image the quaternion and the cell
\* indices of one and the same child j of get_neighbor(previous quaternion,
\* previous indices, level), j being the arg-min-error child of that image;
\* and at all times the stored quaternion is the one of the stored cell.
C2_LevelStep ==
    (pc = "loop" /\ pc' = "loop" /\ iter_' = iter_ + 1) =>
        \A i \in 0..(B - 1) :
            LET nb == get_neighbor(min_quat[i], s2i[i], s1i[i], iter_')
                j  == min_i'[i]
            IN  /\ j \in 0..(NumNeighbors - 1)
                /\ min_quat'[i] = nb.quat[j]
                /\ <<s2i'[i], s1i'[i]>> = nb.ind[j]
                /\ ShapeMatches =>
                      IsFirstMin([c \in 0..(NumNeighbors - 1) |->
                                     RotErr(i, quaternions_to_SO3(nb.quat[c]))],
                                 NumNeighbors, j)

C2_SameCell ==
    pc \in {"loop", "done"} =>
        \A i \in 0..(B - 1) :
            min_quat[i] = HopfQuat(iter_, s2i[i], s1i[i])

\* C2: every refinement step satisfies C2_LevelStep and every state
\* C2_SameCell: quaternion and cell indices are always those of one child.
C2_QuatAndCellAgree == [][C2_LevelStep]_vars /\ []C2_SameCell

\* Two levels done on two images that chose different children.
C2_Witness ==
    /\ pc = "loop" /\ iter_ = 2 /\ B = 2 /\ ShapeMatches
    /\ min_i[0] # min_i[1]
    /\ min_quat[0] # min_quat[1]

----------------------------------------------------------------------------
\* How far a call has got: 0 before it, 1 before the base stage, 2 + k after
\* level k, 3 + niter once it has returned or raised.
C3_Rank ==
    CASE pc = "idle" -> 0
      [] pc = "base" -> 1
      [] pc = "loop" -> 2 + iter_
      [] OTHER       -> 3 + niter

\* C3: a call runs the levels 1, 2, ..., in this order, never beyond niter,
\* each for every image; it returns only after level niter, with the
\* rotations of the best quaternions of that level; and it terminates: every
\* step takes it further towards the bound 3 + niter.
C3_Levels ==
    /\ iter_ \in 0..niter
    /\ iters = [k \in 1..iter_ |-> k]
    /\ pc = "loop" => DOMAIN min_i = 0..(B - 1)
    /\ pc = "done" =>
          /\ iter_ = niter
          /\ out = [i \in 0..(B - 1) |-> quaternions_to_SO3(min_quat[i])]
          /\ \A i \in 0..(B - 1) : out[i].res = niter

\* C3: every state satisfies C3_Levels and every step increases C3_Rank.
C3_FixedBudget == []C3_Levels /\ [][C3_Rank' > C3_Rank]_vars

\* A returned call of two levels on two images.
C3_Witness ==
    /\ pc = "done" /\ niter = 2 /\ B = 2
    /\ iters = <<1, 2>>

----------------------------------------------------------------------------
\* C4: search batch independence. When a call on a batch returns, then for
\* every split of the batch into two non-empty batches A (the first k images)
\* and B (the rest), every image's rotation is the one that opt_theta gives
\* it on A alone, respectively on B alone, with the same model, grid and niter.
C4_BatchIndependence ==
    pc = "done" =>
        \A k \in 1..(B - 1) :
            LET ra == opt_theta(SubBatch(images, 0, k), niter, model, ny, nx)
                rb == opt_theta(SubBatch(images, k, B), niter, model, ny, nx)
            IN  /\ \A i \in 0..(k - 1) : out[i] = ra[i]
                /\ \A i \in k..(B - 1) : out[i] = rb[i - k]


\* A returned call with refinement on two images with different results.
C4_Witness ==
    /\ pc = "done" /\ B = 2 /\ niter >= 1 /\ ShapeMatches
    /\ out[0] # out[1]

----------------------------------------------------------------------------
\* C5 as stated: with niter = 0 the call queries no neighbors, calls the
\* render model once and returns the rotation of the base-stage choice; and
\* for an image that is exactly the rendering of base-grid index k it returns
\* the rotation at index k.
C5_Original ==
    (pc = "done" /\ niter = 0 /\ ShapeMatches) =>
        /\ neighbors = <<>> /\ renderCalls = <<G0>>
        /\ \A i \in 0..(B - 1) :
              /\ out[i] = base_rot[min_i[i]]
              /\ \A k \in 0..(G0 - 1) : MatchesBase(i, k) => out[i] = base_rot[k]

\* C5 amended: ... for an image that is exactly the rendering of base-grid
\* index k it returns the rotation at the lowest index whose error is NaN if
\* there is one, else at the lowest index whose rendering is the image
\* (index k itself when no lower entry renders the same).
C5_ZeroIter ==
    (pc = "done" /\ niter = 0 /\ ShapeMatches) =>
        /\ neighbors = <<>> /\ renderCalls = <<G0>>
        /\ \A i \in 0..(B - 1) :
              /\ out[i] = base_rot[min_i[i]]
              /\ \A k \in 0..(G0 - 1) : MatchesBase(i, k) =>
                    \E f \in 0..(G0 - 1) :
                        /\ out[i] = base_rot[f]
                        /\ IF \E q \in 0..(G0 - 1) : RotErr(i, base_rot[q]).k = "nan"
                           THEN /\ RotErr(i, base_rot[f]).k = "nan"
                                /\ \A q \in 0..(f - 1) : RotErr(i, base_rot[q]).k # "nan"
                           ELSE /\ f <= k
                                /\ MatchesBase(i, f)
                                /\ \A q \in 0..(f - 1) : ~MatchesBase(i, q)

\* An image that is the rendering of an entry k > 0 and gets its rotation.
C5_Witness ==
    /\ pc = "done" /\ niter = 0 /\ ShapeMatches /\ B >= 1
    /\ \E k \in 1..(G0 - 1) : MatchesBase(0, k) /\ out[0] = base_rot[k]

----------------------------------------------------------------------------
\* C6 as stated: a candidate whose error is NaN or infinite is never the
\* selected one of the base stage or of a refinement level as long as another
\* candidate of that image has a finite error.
C6_NonFiniteNeverSelected ==
    (pc = "loop" /\ ShapeMatches) =>
        \A i \in 0..(B - 1) :
            LET cand == IF iter_ = 0
                        THEN [q \in 0..(G0 - 1) |-> RotErr(i, base_rot[q])]
                        ELSE [c \in 0..(NumNeighbors - 1) |->
                                 RotErr(i, quaternions_to_SO3(neighbors[i].quat[c]))]
            IN  (\E c \in DOMAIN cand : cand[c].k = "fin") => cand[min_i[i]].k = "fin"

----------------------------------------------------------------------------
\* C7 as stated: a call with a batch of B = 0 images never raises an error,
\* whatever niter, and returns an empty output.
C7_EmptyBatchNoOp ==
    (Entered /\ B = 0 /\ ShapeMatches /\ ~model.training) =>
        /\ pc # "error"
        /\ pc = "done" => out = <<>>

----------------------------------------------------------------------------
\* C8 as stated: when the image dimensions are not the lattice dimensions the
\* call fails before any render-model call: the render model is never called
\* and the call never gets past the base stage.
C8_FailFast ==
    (Entered /\ ~ShapeMatches) =>
        /\ renderCalls = <<>>
        /\ pc \notin {"loop", "done"}

----------------------------------------------------------------------------
\* C9: with the model in training mode the render model is never called and
\* the call fails at its start, with no best index computed.
C9_InferenceMode ==
    model.training =>
        /\ renderCalls = <<>>
        /\ pc \in {"idle", "error"}
        /\ pc = "error" => error = "AssertionError"
        /\ min_i = <<>> /\ min_quat = <<>> /\ s2i = <<>> /\ s1i = <<>>

\* A call on a non-empty batch refused for the mode of the model.
C9_Witness ==
    /\ model.training /\ pc = "error" /\ B >= 1 /\ ShapeMatches

----------------------------------------------------------------------------
\* C10: on B >= 1 images the render model is called once with the G0 base
\* rotations, then once per finished level with the B * 8 candidates of all
\* images, each call made with the arg-min of the stage before it taken for
\* every image; a returned call has made exactly 1 + niter calls.
C10_OneCallPerStage ==
    /\ pc = "base" => renderCalls = <<>>
    /\ (pc \in {"loop", "done"} /\ B >= 1) =>
          /\ renderCalls = <<G0>> \o [k \in 1..iter_ |-> B * NumNeighbors]
          /\ DOMAIN min_i = 0..(B - 1)
    /\ (pc = "done" /\ B >= 1) => Len(renderCalls) = 1 + niter

\* A returned call of two levels on two images.
C10_Witness ==
    /\ pc = "done" /\ B = 2 /\ niter = 2
    /\ renderCalls = <<G0, 2 * NumNeighbors, 2 * NumNeighbors>>

====
